---- MODULE Spec2Model ----
(***************************************************************************)
(* State-machine model of the rgb-node client core:                        *)
(*   - the disk-backed stash store        (src/src/rgbkit/storage.rs)      *)
(*   - the request/reply client runtimes  (src/src/cli/runtime.rs,         *)
(*                                         src/src/i9n/fungible.rs)        *)
(*   - the transfer workflow              (src/src/i9n/fungible.rs)        *)
(*   - the allocations and their text form                                 *)
(*                             (src/src/contracts/fungible/data/outcoins.rs)*)
(*                                                                         *)
(* Five specifications share the variables:                                *)
(*   SpecStore   : the Store operations of DiskStorage on one data         *)
(*                 directory                                               *)
(*   SpecForeign : the same on a directory that holds files DiskStorage    *)
(*                 did not write                                           *)
(*   Spec        : one thread driving a cli or an i9n runtime against      *)
(*                 backends that answer each request with an arbitrary     *)
(*                 reply                                                   *)
(*   SpecLive    : Spec with backends that answer and a receive that       *)
(*                 proceeds                                                *)
(*   SpecCoins   : seal_definition, to_string and from_str of allocations  *)
(***************************************************************************)
EXTENDS Integers, Sequences, FiniteSets, TLC

VARIABLES
    disk,             \* store: the files under data_dir, path -> bytes
    ret,              \* store: the last Store call and what it returned
    stored_schemata,  \* store history: schemata added and not removed since
    stored_geneses,   \* store history: geneses added and not removed since
    awaiting,         \* client: per channel, the REQ socket waits for a reply
    outbox,           \* client: per channel, the types of the requests not yet answered
    inbox,            \* client: per channel, replies the client has not received
    wire,             \* client history: per channel, the messages put on it
    call,             \* client: the call in progress (or the last one finished)
    result,           \* client: what the last call returned (None while running)
    fs,               \* client: the files transfer writes, path -> content
    warned,           \* client: output indexes warned about by the current call
    ncalls,           \* client: calls begun so far (bounded by MaxCalls)
    seals,            \* allocations: the seal_definition calls made, in order
    text_call         \* allocations: the last to_string or from_str call

storeVars  == <<disk, ret, stored_schemata, stored_geneses>>
clientVars == <<awaiting, outbox, inbox, wire, call, result, fs, warned, ncalls>>
coinVars   == <<seals, text_call>>
vars       == <<disk, ret, stored_schemata, stored_geneses,
                awaiting, outbox, inbox, wire, call, result, fs, warned, ncalls,
                seals, text_call>>

----------------------------------------------------------------------------
(* Bounds of the model *)

\* hex digits of an identifier's file name (64 in the program)
HexLen == 2
\* schemata are the records with body 0..MaxBody
MaxBody == 1
\* geneses are the records of the first schema with nonce 0..MaxNonce
MaxNonce == 1
\* calls one thread makes on its runtimes
MaxCalls == 2
\* outputs of a transaction template
MaxOutputs == 2
\* bits of the blinding entropy (64 in the program)
EntropyBits == 2
\* bits of an output index (32 in the program)
VoutBits == 3
\* seal_definition calls of one run
MaxSeals == 2

----------------------------------------------------------------------------
(* Generic helpers *)

None == "None"

\* Result values of the store: Ok of a flag, a schema, a genesis, an id, a list
\* of ids; Err of a DiskStorageError
OkFlag(b)    == [ok |-> TRUE, flag |-> b]
OkSchema(s)  == [ok |-> TRUE, schema |-> s]
OkGenesis(g) == [ok |-> TRUE, genesis |-> g]
OkId(id)     == [ok |-> TRUE, id |-> id]
OkIds(ids)   == [ok |-> TRUE, ids |-> ids]
Err(e)       == [ok |-> FALSE, err |-> e]

Range(seq) == {seq[i] : i \in DOMAIN seq}

\* every order in which the elements of a finite set can be listed
Orders(S) ==
    {q \in [1..Cardinality(S) -> S] : \A i, j \in 1..Cardinality(S) : q[i] = q[j] => i = j}

Min(S) == CHOOSE x \in S : \A y \in S : x <= y

Max(S) == CHOOSE x \in S : \A y \in S : x >= y

RECURSIVE Pow(_, _)
Pow(b, n) == IF n = 0 THEN 1 ELSE b * Pow(b, n - 1)

----------------------------------------------------------------------------
(* Stash store: records, identifiers, encodings *)

\* DiskStorageError variants; an io::Error keeps its io::ErrorKind
IoError(kind)      == [variant |-> "Io", kind |-> kind]
EncodingError      == [variant |-> "Encoding", kind |-> None]
BrokenHexFilenames == [variant |-> "BrokenHexFilenames", kind |-> None]

IdSpace == Pow(16, HexLen)

Schema == [body : 0..MaxBody]

\* content hash of a schema: collision-free on the bounded record universe
schema_id(s) == (37 * s.body + 11) % IdSpace

SchemaIds == {schema_id(s) : s \in Schema}

Genesis == [schema_id : {schema_id([body |-> 0])}, nonce : 0..MaxNonce]

\* content hash of a genesis: collision-free on the bounded record universe
contract_id(g) == (91 * g.schema_id + 53 * g.nonce + 7) % IdSpace

ContractIds == {contract_id(g) : g \in Genesis}

\* lowercase hex of an identifier: HexLen digits, each 0..15, most significant first
to_hex(id) == [i \in 1..HexLen |-> (id \div Pow(16, HexLen - i)) % 16]

RECURSIVE HexValue(_)
HexValue(s) ==
    IF s = <<>> THEN 0 ELSE 16 * HexValue(SubSeq(s, 1, Len(s) - 1)) + s[Len(s)]

\* an identifier from a file name: HexLen hex digits, or a hex error
from_hex(s) ==
    IF Len(s) = HexLen /\ \A i \in 1..Len(s) : s[i] \in 0..15
    THEN OkId(HexValue(s))
    ELSE Err(BrokenHexFilenames)

\* deterministic binary encoding of the records, and its decoding
Schema_strict_encode(s) == <<s.body>>

Schema_strict_decode(bytes) ==
    IF Len(bytes) = 1 /\ bytes[1] \in 0..MaxBody
    THEN OkSchema([body |-> bytes[1]])
    ELSE Err(EncodingError)

Genesis_strict_encode(g) == <<g.schema_id, g.nonce>>

Genesis_strict_decode(bytes) ==
    IF Len(bytes) = 2 /\ bytes[1] \in SchemaIds /\ bytes[2] \in 0..MaxNonce
    THEN OkGenesis([schema_id |-> bytes[1], nonce |-> bytes[2]])
    ELSE Err(EncodingError)

----------------------------------------------------------------------------
(* DiskStorageConfig *)

data_dir == "data"

RGB_EXTENSION == "rgb"

schemata_dir == <<data_dir, "schemata">>

geneses_dir == <<data_dir, "geneses">>

schema_filename(schema_id_) ==
    [dir |-> schemata_dir, stem |-> to_hex(schema_id_), ext |-> RGB_EXTENSION]

genesis_filename(contract_id_) ==
    [dir |-> geneses_dir, stem |-> to_hex(contract_id_), ext |-> RGB_EXTENSION]

\* the names (extension stripped) of the files of a directory with an extension
read_dir_filenames(dir, ext) ==
    {p.stem : p \in {q \in DOMAIN disk : q.dir = dir /\ q.ext = ext}}

genesis_names == read_dir_filenames(geneses_dir, RGB_EXTENSION)

schema_names_wrong_dir == read_dir_filenames(geneses_dir, RGB_EXTENSION)

schema_names == read_dir_filenames(schemata_dir, RGB_EXTENSION)

exists(path) == path \in DOMAIN disk

\* the disk after a whole-file write of bytes at path
written(path, bytes) ==
    [p \in DOMAIN disk \cup {path} |-> IF p = path THEN bytes ELSE disk[p]]

\* the disk after fs::remove_file(path)
removed(path) == [p \in DOMAIN disk \ {path} |-> disk[p]]

\* ReadWrite::read_file: open (not-found when absent), then decode the whole file
Schema_read_file(path) ==
    IF ~exists(path) THEN Err(IoError("NotFound")) ELSE Schema_strict_decode(disk[path])

Genesis_read_file(path) ==
    IF ~exists(path) THEN Err(IoError("NotFound")) ELSE Genesis_strict_decode(disk[path])

----------------------------------------------------------------------------
(* impl Store for DiskStorage: what each call returns in the current state *)

RECURSIVE ids_from_names_skipping(_)
ids_from_names_skipping(names) ==
    IF names = <<>> THEN OkIds(<<>>)
    ELSE LET rest == ids_from_names_skipping(SubSeq(names, 1, Len(names) - 1))
             last == from_hex(names[Len(names)])
         IN  IF ~last.ok THEN rest ELSE OkIds(Append(rest.ids, last.id))

\* try_fold over the names in directory order: the first bad name ends it
RECURSIVE ids_from_names(_)
ids_from_names(names) ==
    IF names = <<>> THEN OkIds(<<>>)
    ELSE LET rest == ids_from_names(SubSeq(names, 1, Len(names) - 1))
             last == from_hex(names[Len(names)])
         IN  IF ~rest.ok THEN rest
             ELSE IF ~last.ok THEN last
             ELSE OkIds(Append(rest.ids, last.id))

schema_ids_of(names) == ids_from_names(names)

contract_ids_of(names) == ids_from_names(names)

schema_of(id) == Schema_read_file(schema_filename(id))

has_schema_of(id) == OkFlag(exists(schema_filename(id)))

genesis_of(id) == Genesis_read_file(genesis_filename(id))

has_genesis_of(id) == OkFlag(exists(genesis_filename(id)))

----------------------------------------------------------------------------
(* impl Store for DiskStorage: the calls *)

\* the call just made: its name, its argument (an id or a record) and its result
ReturnedList(op, res)      == ret' = [op |-> op, res |-> res]
ReturnedId(op, id, res)    == ret' = [op |-> op, id |-> id, res |-> res]
ReturnedSchema(op, s, res) == ret' = [op |-> op, schema |-> s, res |-> res]
ReturnedGenesis(op, g, res) == ret' = [op |-> op, genesis |-> g, res |-> res]

schema_ids ==
    \E io_ok \in BOOLEAN, names \in Orders(schema_names) :
        /\ ReturnedList("schema_ids",
                    IF io_ok THEN schema_ids_of(names) ELSE Err(IoError("Other")))
        /\ UNCHANGED <<disk, stored_schemata, stored_geneses>>

schema(id) ==
    /\ ReturnedId("schema", id, schema_of(id))
    /\ UNCHANGED <<disk, stored_schemata, stored_geneses>>

has_schema(id) ==
    /\ ReturnedId("has_schema", id, has_schema_of(id))
    /\ UNCHANGED <<disk, stored_schemata, stored_geneses>>

add_schema_exists_after_write(s) ==
    \E io_ok \in BOOLEAN :
        LET filename == schema_filename(schema_id(s))
        IN  IF io_ok
            THEN /\ disk' = written(filename, Schema_strict_encode(s))
                 /\ ReturnedSchema("add_schema", s, OkFlag(filename \in DOMAIN disk'))
                 /\ stored_schemata' = stored_schemata \cup {s}
                 /\ UNCHANGED stored_geneses
            ELSE /\ ReturnedSchema("add_schema", s, Err(IoError("Other")))
                 /\ UNCHANGED <<disk, stored_schemata, stored_geneses>>

add_schema_to_geneses(s) ==
    \E io_ok \in BOOLEAN :
        LET filename == genesis_filename(schema_id(s))
            exists_  == exists(filename)
        IN  IF io_ok
            THEN /\ disk' = written(filename, Schema_strict_encode(s))
                 /\ ReturnedSchema("add_schema", s, OkFlag(exists_))
                 /\ stored_schemata' = stored_schemata \cup {s}
                 /\ UNCHANGED stored_geneses
            ELSE /\ ReturnedSchema("add_schema", s, Err(IoError("Other")))
                 /\ UNCHANGED <<disk, stored_schemata, stored_geneses>>

add_schema(s) ==
    \E io_ok \in BOOLEAN :
        LET filename == schema_filename(schema_id(s))
            exists_  == exists(filename)
        IN  IF io_ok
            THEN /\ disk' = written(filename, Schema_strict_encode(s))
                 /\ ReturnedSchema("add_schema", s, OkFlag(exists_))
                 /\ stored_schemata' = stored_schemata \cup {s}
                 /\ UNCHANGED stored_geneses
            ELSE /\ ReturnedSchema("add_schema", s, Err(IoError("Other")))
                 /\ UNCHANGED <<disk, stored_schemata, stored_geneses>>

remove_schema(id) ==
    \E io_ok \in BOOLEAN :
        LET filename == schema_filename(id)
            existed  == exists(filename)
        IN  IF ~existed
            THEN /\ ReturnedId("remove_schema", id, Err(IoError("NotFound")))
                 /\ UNCHANGED <<disk, stored_schemata, stored_geneses>>
            ELSE IF io_ok
            THEN /\ disk' = removed(filename)
                 /\ ReturnedId("remove_schema", id, OkFlag(existed))
                 /\ stored_schemata' = {s \in stored_schemata : schema_id(s) # id}
                 /\ UNCHANGED stored_geneses
            ELSE /\ ReturnedId("remove_schema", id, Err(IoError("Other")))
                 /\ UNCHANGED <<disk, stored_schemata, stored_geneses>>

contract_ids ==
    \E io_ok \in BOOLEAN, names \in Orders(genesis_names) :
        /\ ReturnedList("contract_ids",
                    IF io_ok THEN contract_ids_of(names) ELSE Err(IoError("Other")))
        /\ UNCHANGED <<disk, stored_schemata, stored_geneses>>

genesis(id) ==
    /\ ReturnedId("genesis", id, genesis_of(id))
    /\ UNCHANGED <<disk, stored_schemata, stored_geneses>>

has_genesis(id) ==
    /\ ReturnedId("has_genesis", id, has_genesis_of(id))
    /\ UNCHANGED <<disk, stored_schemata, stored_geneses>>

add_genesis_to_schemata(g) ==
    \E io_ok \in BOOLEAN :
        LET filename == schema_filename(contract_id(g))
            exists_  == exists(filename)
        IN  IF io_ok
            THEN /\ disk' = written(filename, Genesis_strict_encode(g))
                 /\ ReturnedGenesis("add_genesis", g, OkFlag(exists_))
                 /\ stored_geneses' = stored_geneses \cup {g}
                 /\ UNCHANGED stored_schemata
            ELSE /\ ReturnedGenesis("add_genesis", g, Err(IoError("Other")))
                 /\ UNCHANGED <<disk, stored_schemata, stored_geneses>>

add_genesis(g) ==
    \E io_ok \in BOOLEAN :
        LET filename == genesis_filename(contract_id(g))
            exists_  == exists(filename)
        IN  IF io_ok
            THEN /\ disk' = written(filename, Genesis_strict_encode(g))
                 /\ ReturnedGenesis("add_genesis", g, OkFlag(exists_))
                 /\ stored_geneses' = stored_geneses \cup {g}
                 /\ UNCHANGED stored_schemata
            ELSE /\ ReturnedGenesis("add_genesis", g, Err(IoError("Other")))
                 /\ UNCHANGED <<disk, stored_schemata, stored_geneses>>

remove_genesis(id) ==
    \E io_ok \in BOOLEAN :
        LET filename == genesis_filename(id)
            existed  == exists(filename)
        IN  IF ~existed
            THEN /\ ReturnedId("remove_genesis", id, Err(IoError("NotFound")))
                 /\ UNCHANGED <<disk, stored_schemata, stored_geneses>>
            ELSE IF io_ok
            THEN /\ disk' = removed(filename)
                 /\ ReturnedId("remove_genesis", id, OkFlag(existed))
                 /\ stored_geneses' = {g \in stored_geneses : contract_id(g) # id}
                 /\ UNCHANGED stored_schemata
            ELSE /\ ReturnedId("remove_genesis", id, Err(IoError("Other")))
                 /\ UNCHANGED <<disk, stored_schemata, stored_geneses>>

----------------------------------------------------------------------------
(* Request/reply client: channels, messages, results *)

\* stash_rpc and fungible_rpc of cli::Runtime, session_rpc of i9n::Runtime
Channels == {"stash", "fungible", "session"}

FailureMessages == {"no such asset", "storage failure"}

Consignments == {"consignment-a", "consignment-b"}

NoPsbt == [global |-> "none", outputs |-> <<>>]

\* the templates a backend may return: the unsigned transaction it settled on
BackendPsbts == {[global |-> "tx-committed", outputs |-> <<>>]}

\* api::Reply, decoded
Replies ==
    {[tag |-> "Success"]}
    \cup {[tag |-> "Failure", msg |-> m] : m \in FailureMessages}
    \cup {[tag |-> "Sync", data |-> "assets-dump"]}
    \cup {[tag |-> "Assets", data |-> "outpoint-assets"]}
    \cup {[tag |-> "Transfer", consignment |-> c, psbt |-> p] :
            c \in Consignments, p \in BackendPsbts}

NoReply == [tag |-> "None"]

NoCmd == [tag |-> "None"]

\* the wire form of a message: a type tag and the encoded fields
Encode(msg) == [type |-> msg.tag, payload |-> msg]

\* a raw message of a type Unmarshaller<Reply> does not know
UnknownRaw == [type |-> "Unknown", payload |-> [tag |-> "Unknown"]]

RawReplies == {Encode(r) : r \in Replies} \cup {UnknownRaw}

\* Unmarshaller<Reply>::unmarshall: the reply of a known type, or an error
Unmarshall(raw) ==
    IF raw.type \in {r.tag : r \in Replies} /\ raw.payload \in Replies
    THEN [ok |-> TRUE, reply |-> raw.payload]
    ELSE [ok |-> FALSE]

\* what a call returned
Running         == [kind |-> "Running"]
OkUnit          == [kind |-> "Ok", unit |-> TRUE]
OkReply(r)      == [kind |-> "Ok", reply |-> r]
OkData(d)       == [kind |-> "Ok", data |-> d]
Error(e)        == [kind |-> "Err", err |-> e]
Panic(at)       == [kind |-> "Panic", at |-> at]

\* the error kinds of the runtimes
ErrorReply(msg)      == [variant |-> "Reply", msg |-> msg]
UnexpectedResponse   == [variant |-> "UnexpectedResponse"]
ServiceError(cause)  == [variant |-> "ServiceErrorDomain", cause |-> cause]
Base64Error          == [variant |-> "Base64"]
ConsensusError       == [variant |-> "ConsensusEncoding"]
StorageError         == [variant |-> "Io"]

----------------------------------------------------------------------------
(* Files written by transfer *)

TransferPaths == {"consignment.rgb", "transfer.psbt"}

Absent    == [fmt |-> "absent"]
OldFile   == [fmt |-> "old"]
Truncated == [fmt |-> "truncated"]

\* Consignment::write_file: the proof bundle in the deterministic binary encoding
strict_encoded(consignment) == [fmt |-> "strict", consignment |-> consignment]

\* PartiallySignedTransaction::consensus_encode: the template in chain format
consensus_encoded(psbt) == [fmt |-> "consensus", psbt |-> psbt]

----------------------------------------------------------------------------
(* Transaction templates *)

\* public keys, in the order of the hd_keypaths map
Keys == 1..2

\* PublicKey::to_bytes: the serialization of the key, its parity byte first
to_bytes(key) == <<2 + (key % 2), key>>

\* the proprietary key the commitment public key is stored under
RgbOutPubkey == [prefix |-> "RGB", subtype |-> "PSBT_OUT_PUBKEY", key |-> <<>>]

\* an output of a template: its key-derivation metadata and proprietary entries
StaleEntry == [key |-> RgbOutPubkey, value |-> <<0>>]

PsbtOutputs ==
    {[hd_keypaths |-> {}, proprietary |-> {}],
     [hd_keypaths |-> {}, proprietary |-> {StaleEntry}],
     [hd_keypaths |-> Keys, proprietary |-> {}],
     [hd_keypaths |-> {Max(Keys)}, proprietary |-> {StaleEntry}]}

Psbts ==
    UNION {[global : {"tx-template"}, outputs : [1..n -> PsbtOutputs]] : n \in 0..MaxOutputs}

\* prototype_psbt: text that is not base64, base64 of bytes that are no
\* transaction, or base64 of a serialized template
Prototypes ==
    {[text |-> "not-base64"]}
    \cup {[text |-> "base64", bytes |-> [magic |-> "junk"]]}
    \cup {[text |-> "base64", bytes |-> [magic |-> "psbt", psbt |-> p]] : p \in Psbts}

base64_decode(text) ==
    IF text.text = "base64" THEN [ok |-> TRUE, bytes |-> text.bytes] ELSE [ok |-> FALSE]

deserialize(bytes) ==
    IF bytes.magic = "psbt" THEN [ok |-> TRUE, psbt |-> bytes.psbt] ELSE [ok |-> FALSE]

\* BTreeMap insert: the entry of that key is replaced
insert_proprietary_key(output, prefix, subtype, key, value) ==
    LET k == [prefix |-> prefix, subtype |-> subtype, key |-> key]
    IN  [output EXCEPT !.proprietary =
            {e \in @ : e.key # k} \cup {[key |-> k, value |-> value]}]

last_known_key(output) == Max(output.hd_keypaths)

\* output.hd_keypaths.keys().next(): the first key of the ordered map
first_known_key(output) == Min(output.hd_keypaths)

\* the body of the loop over the outputs
inject_commitment_key(output) ==
    IF output.hd_keypaths # {}
    THEN insert_proprietary_key(output, "RGB", "PSBT_OUT_PUBKEY", <<>>,
                                to_bytes(first_known_key(output)))
    ELSE output

\* the template after the loop, and the indexes (from 0) the loop warned about
with_commitment_keys(psbt) ==
    [psbt EXCEPT !.outputs = [i \in DOMAIN @ |-> inject_commitment_key(@[i])]]

warnings_of(psbt) ==
    {i - 1 : i \in {j \in DOMAIN psbt.outputs : psbt.outputs[j].hd_keypaths = {}}}

----------------------------------------------------------------------------
(* Inputs of the calls *)

OutputFormat == {"Yaml", "Json", "Toml", "StrictEncode", "Rust"}

DataFormat == {"Yaml", "Json", "Toml", "StrictEncode"}

OutPoints == {"outpoint-1"}

Allocations == {<<>>, <<[coins |-> 5, vout |-> 0, txid |-> "txid-1"]>>}

Invoices ==
    [contract_id : {"contract-1"},
     amount : {7},
     outpoint : {[kind |-> "BlindedUtxo", hash |-> "seal-hash-1"],
                 [kind |-> "Address", address |-> "address-1"]}]

IssueStructures ==
    {[kind |-> "SingleIssue"],
     [kind |-> "MultipleIssues", max_supply |-> 100, reissue_control |-> "outpoint-1"]}

----------------------------------------------------------------------------
(* The call in progress *)

\* the arguments of transfer, kept until the request is handed to command()
NoArgs == [tag |-> "None"]

IdleCall ==
    [rt |-> "none", op |-> "none", chan |-> "none", pc |-> "idle",
     stage |-> "none", cmd |-> NoCmd, entered |-> FALSE, sent |-> 0, recvd |-> 0,
     reply |-> NoReply, proto |-> NoPsbt, decoded |-> FALSE, dest |-> "none",
     format |-> "none", cfile |-> "none", tfile |-> "none", fs0 |-> fs,
     args |-> NoArgs]

\* a call begins: the request is built and command() is about to be entered
Begun(rt, op, chan, cmd) ==
    [rt |-> rt, op |-> op, chan |-> chan, pc |-> "send",
     stage |-> "assembling", cmd |-> cmd, entered |-> FALSE, sent |-> 0, recvd |-> 0,
     reply |-> NoReply, proto |-> NoPsbt, decoded |-> FALSE, dest |-> "none",
     format |-> "none", cfile |-> "none", tfile |-> "none", fs0 |-> fs,
     args |-> NoArgs]

\* a thread owns one runtime (the cli's or the i9n's) and calls it when no call
\* of its is in progress: the operations take &mut self
CanBegin(rt) == call.pc = "idle" /\ ncalls < MaxCalls /\ call.rt \in {"none", rt}

Append1_all(f, c, m) == [d \in DOMAIN f |-> Append(f[d], m)]

Append1(f, c, m) == [f EXCEPT ![c] = Append(@, m)]

----------------------------------------------------------------------------
(* The command functions: encode, send, block for the reply, unmarshall *)

\* the call returns (or panics) with res, c being the call's last state
ReturnWith(c, res) ==
    /\ result' = res
    /\ call' = [c EXCEPT !.pc = "idle", !.cmd = NoCmd, !.proto = NoPsbt,
                          !.args = NoArgs]

\* a call begins with the call state c0
StartCall(c0) ==
    /\ CanBegin(c0.rt)
    /\ call' = c0
    /\ result' = Running
    /\ ncalls' = ncalls + 1
    /\ UNCHANGED <<awaiting, outbox, inbox, wire, fs>>
    /\ UNCHANGED <<storeVars, coinVars>>

send_raw_message_any_state(c, tx_ok) == tx_ok

\* send_raw_message on a ZmqType::Req socket: refused while a reply is awaited
send_raw_message_ok(c, tx_ok) == tx_ok /\ ~awaiting[c]

\* command.encode()? and send_raw_message(&data)?
CommandSend(c) ==
    /\ call.pc = "send"
    /\ call.chan = c
    /\ \E enc_ok, tx_ok \in BOOLEAN :
        LET entered == [call EXCEPT !.entered = TRUE]
        IN  IF ~enc_ok
            THEN /\ ReturnWith(entered, Error(ServiceError("Encoding")))
                 /\ UNCHANGED <<awaiting, outbox, wire>>
            ELSE IF ~send_raw_message_ok(c, tx_ok)
            THEN /\ ReturnWith(entered, Error(ServiceError("Transport")))
                 /\ UNCHANGED <<awaiting, outbox, wire>>
            ELSE /\ awaiting' = [awaiting EXCEPT ![c] = TRUE]
                 /\ outbox' = Append1(outbox, c, Encode(call.cmd).type)
                 /\ wire' = Append1(wire, c, "request")
                 /\ call' = [entered EXCEPT !.pc = "recv", !.stage = "awaiting",
                                            !.sent = @ + 1, !.cmd = NoCmd,
                                            !.proto = NoPsbt, !.args = NoArgs]
                 /\ UNCHANGED result
    /\ UNCHANGED <<inbox, fs, warned, ncalls>>
    /\ UNCHANGED <<storeVars, coinVars>>

CommandRecvError_resends(c) ==
    /\ call.pc = "recv"
    /\ call.chan = c
    /\ outbox' = Append1(outbox, c, "Retry")
    /\ wire' = Append1(wire, c, "request")
    /\ call' = [call EXCEPT !.sent = @ + 1]
    /\ UNCHANGED <<awaiting, inbox, result, fs, warned, ncalls>>
    /\ UNCHANGED <<storeVars, coinVars>>

\* recv_raw_message()? fails: the error is returned, the socket still waits
CommandRecvError(c) ==
    /\ call.pc = "recv"
    /\ call.chan = c
    /\ ReturnWith(call, Error(ServiceError("Transport")))
    /\ UNCHANGED <<awaiting, outbox, inbox, wire, fs, warned, ncalls>>
    /\ UNCHANGED <<storeVars, coinVars>>

\* recv_raw_message()? delivers one message, then unmarshall(&raw)?
CommandRecv(c) ==
    /\ call.pc = "recv"
    /\ call.chan = c
    /\ inbox[c] # <<>>
    /\ inbox' = [inbox EXCEPT ![c] = Tail(@)]
    /\ awaiting' = [awaiting EXCEPT ![c] = FALSE]
    /\ LET got == [call EXCEPT !.recvd = @ + 1]
           u   == Unmarshall(Head(inbox[c]))
       IN  IF u.ok
           THEN /\ call' = [got EXCEPT !.reply = u.reply, !.pc = "match"]
                /\ UNCHANGED result
           ELSE ReturnWith(got, Error(ServiceError("Unmarshall")))
    /\ UNCHANGED <<outbox, wire, fs, warned, ncalls>>
    /\ UNCHANGED <<storeVars, coinVars>>

stash_command_send == CommandSend("stash")

stash_command_recv == CommandRecv("stash") \/ CommandRecvError("stash")

fungible_command_send == CommandSend("fungible")

fungible_command_recv == CommandRecv("fungible") \/ CommandRecvError("fungible")

command_send == CommandSend("session")

command_recv == CommandRecv("session") \/ CommandRecvError("session")

\* the backend service answers the oldest request of a channel with one reply
BackendReply ==
    \E c \in Channels, raw \in RawReplies :
        /\ outbox[c] # <<>>
        /\ outbox' = [outbox EXCEPT ![c] = Tail(@)]
        /\ inbox' = Append1(inbox, c, raw)
        /\ wire' = Append1(wire, c, "reply")
        /\ UNCHANGED <<awaiting, call, result, fs, warned, ncalls>>
        /\ UNCHANGED <<storeVars, coinVars>>

----------------------------------------------------------------------------
(* cli::Runtime: each operation builds one request and returns the reply *)

CliBegin(op, chan, cmd) ==
    /\ StartCall(Begun("cli", op, chan, cmd))
    /\ warned' = {}

cli_list_schemata == CliBegin("list_schemata", "stash", [tag |-> "ListSchemata"])

cli_list_geneses == CliBegin("list_geneses", "stash", [tag |-> "ListGeneses"])

cli_schema ==
    \E id \in SchemaIds :
        CliBegin("schema", "stash", [tag |-> "ReadSchema", schema_id |-> id])

cli_genesis ==
    \E id \in ContractIds :
        CliBegin("genesis", "stash", [tag |-> "ReadGenesis", contract_id |-> id])

cli_list ==
    \E output_format \in OutputFormat :
        IF output_format \in DataFormat
        THEN /\ StartCall([Begun("cli", "list", "fungible",
                                 [tag |-> "Sync", data_format |-> output_format])
                            EXCEPT !.format = output_format])
             /\ warned' = {}
        ELSE /\ CanBegin("cli")
             /\ ncalls' = ncalls + 1
             /\ ReturnWith([Begun("cli", "list", "fungible", NoCmd)
                             EXCEPT !.format = output_format],
                           Panic("unimplemented"))
             /\ warned' = {}
             /\ UNCHANGED <<awaiting, outbox, inbox, wire, fs>>
             /\ UNCHANGED <<storeVars, coinVars>>

cli_import ==
    \E g \in Genesis :
        CliBegin("import", "fungible", [tag |-> "ImportAsset", genesis |-> g])

cli_export ==
    \E id \in ContractIds :
        CliBegin("export", "fungible", [tag |-> "ExportAsset", asset_id |-> id])

cli_issue ==
    CliBegin("issue", "fungible", [tag |-> "Issue", issue |-> [ticker |-> "TCKR"]])

cli_transfer ==
    CliBegin("transfer", "fungible", [tag |-> "Transfer", api |-> [psbt |-> NoPsbt]])

cli_validate ==
    \E c \in Consignments :
        CliBegin("validate", "fungible", [tag |-> "Validate", consignment |-> c])

cli_accept ==
    \E c \in Consignments :
        CliBegin("accept", "fungible", [tag |-> "Accept", accept |-> [consignment |-> c]])

cli_forget ==
    \E o \in OutPoints :
        CliBegin("forget", "fungible", [tag |-> "Forget", outpoint |-> o])

\* Ok(self.stash_command(..)?) and Ok(self.fungible_command(..)?): whatever
\* reply was decoded is handed to the caller
cli_return ==
    /\ call.pc = "match"
    /\ call.rt = "cli"
    /\ ReturnWith(call, OkReply(call.reply))
    /\ UNCHANGED <<awaiting, outbox, inbox, wire, fs, warned, ncalls>>
    /\ UNCHANGED <<storeVars, coinVars>>

----------------------------------------------------------------------------
(* i9n::Runtime: issue, sync, outpoint_assets *)

issue_reply_result_any_is_success(reply) ==
    IF reply.tag = "Failure" THEN Error(ErrorReply(reply.msg)) ELSE OkUnit

issue_reply_result(reply) ==
    IF reply.tag = "Success" THEN OkUnit
    ELSE IF reply.tag = "Failure" THEN Error(ErrorReply(reply.msg))
    ELSE Error(UnexpectedResponse)

sync_reply_result(reply) ==
    IF reply.tag = "Sync" THEN OkData(reply.data)
    ELSE IF reply.tag = "Failure" THEN Error(ErrorReply(reply.msg))
    ELSE Error(UnexpectedResponse)

outpoint_assets_reply_result(reply) ==
    IF reply.tag = "Assets" THEN OkData(reply.data)
    ELSE IF reply.tag = "Failure" THEN Error(ErrorReply(reply.msg))
    ELSE Error(UnexpectedResponse)

issue ==
    \E issue_structure \in IssueStructures, allocate \in Allocations :
        LET multiple == issue_structure.kind = "MultipleIssues"
            supply == IF multiple
                      THEN [some |-> TRUE, value |-> issue_structure.max_supply]
                      ELSE [some |-> FALSE]
            inflatable == IF multiple
                          THEN [some |-> TRUE, value |-> issue_structure.reissue_control]
                          ELSE [some |-> FALSE]
        IN  /\ StartCall(Begun("i9n", "issue", "session",
                    [tag |-> "Issue",
                     issue |-> [ticker |-> "TCKR", supply |-> supply,
                                inflatable |-> inflatable, allocate |-> allocate]]))
            /\ warned' = {}

sync ==
    \E data_format \in DataFormat :
        /\ StartCall(Begun("i9n", "sync", "session",
                           [tag |-> "Sync", data_format |-> data_format]))
        /\ warned' = {}

outpoint_assets ==
    \E outpoint \in OutPoints :
        /\ StartCall(Begun("i9n", "outpoint_assets", "session",
                           [tag |-> "Assets", outpoint |-> outpoint]))
        /\ warned' = {}

MatchWith(op, res) ==
    /\ call.pc = "match"
    /\ call.rt = "i9n"
    /\ call.op = op
    /\ ReturnWith(call, res)
    /\ UNCHANGED <<awaiting, outbox, inbox, wire, fs, warned, ncalls>>
    /\ UNCHANGED <<storeVars, coinVars>>

issue_match == MatchWith("issue", issue_reply_result(call.reply))

sync_match == MatchWith("sync", sync_reply_result(call.reply))

outpoint_assets_match ==
    MatchWith("outpoint_assets", outpoint_assets_reply_result(call.reply))

----------------------------------------------------------------------------
(* i9n::Runtime::transfer *)

theirs_revealed(invoice) ==
    <<[coins |-> invoice.amount, seal_confidential |-> invoice.outpoint.hash,
       blinding |-> 0]>>

\* theirs: vec![Outcoincealed { coins: invoice.amount, seal_confidential }]
theirs_of(invoice) ==
    <<[coins |-> invoice.amount, seal_confidential |-> invoice.outpoint.hash]>>

\* Assembling: resolve the destination, decode the template, inject the
\* commitment keys, build the TransferApi
transfer ==
    \E invoice \in Invoices,
       consignment_file \in {"consignment.rgb"}, transaction_file \in TransferPaths :
        LET c0 == [Begun("i9n", "transfer", "session", NoCmd)
                     EXCEPT !.dest = invoice.outpoint.kind,
                            !.cfile = consignment_file,
                            !.tfile = transaction_file]
            Fail(res) == /\ CanBegin("i9n")
                         /\ ncalls' = ncalls + 1
                         /\ ReturnWith(c0, res)
                         /\ warned' = {}
                         /\ UNCHANGED <<awaiting, outbox, inbox, wire, fs>>
                         /\ UNCHANGED <<storeVars, coinVars>>
        IN  IF invoice.outpoint.kind = "Address" THEN Fail(Panic("unimplemented"))
            ELSE
            \E inputs \in {<<o>> : o \in OutPoints}, allocate \in Allocations,
               prototype_psbt \in Prototypes :
                LET psbt_bytes == base64_decode(prototype_psbt)
                    psbt == deserialize(psbt_bytes.bytes)
                IN  IF ~psbt_bytes.ok THEN Fail(Error(Base64Error))
                    ELSE IF ~psbt.ok THEN Fail(Error(ConsensusError))
                    ELSE
                    /\ StartCall(
                         [c0 EXCEPT
                            !.decoded = TRUE,
                            !.proto = psbt.psbt,
                            !.cmd = [tag |-> "Transfer",
                                     api |-> [psbt |-> with_commitment_keys(psbt.psbt),
                                              contract_id |-> invoice.contract_id,
                                              inputs |-> inputs,
                                              ours |-> allocate,
                                              theirs |-> theirs_of(invoice)]],
                            !.args = [inputs |-> inputs, allocate |-> allocate,
                                      invoice |-> invoice]])
                    /\ warned' = warnings_of(psbt.psbt)

transfer_match_creates_file_first ==
    /\ call.pc = "match"
    /\ call.rt = "i9n"
    /\ call.op = "transfer"
    /\ fs' = [fs EXCEPT ![call.tfile] = Truncated]
    /\ IF call.reply.tag = "Failure"
       THEN ReturnWith(call, Error(ErrorReply(call.reply.msg)))
       ELSE IF call.reply.tag = "Transfer"
       THEN /\ call' = [call EXCEPT !.pc = "write_consignment", !.stage = "settling"]
            /\ UNCHANGED result
       ELSE ReturnWith(call, Error(UnexpectedResponse))
    /\ UNCHANGED <<awaiting, outbox, inbox, wire, warned, ncalls>>
    /\ UNCHANGED <<storeVars, coinVars>>

\* match &*self.command(Request::Transfer(api))?
transfer_match ==
    /\ call.pc = "match"
    /\ call.rt = "i9n"
    /\ call.op = "transfer"
    /\ IF call.reply.tag = "Failure"
       THEN ReturnWith(call, Error(ErrorReply(call.reply.msg)))
       ELSE IF call.reply.tag = "Transfer"
       THEN /\ call' = [call EXCEPT !.pc = "write_consignment", !.stage = "settling"]
            /\ UNCHANGED result
       ELSE ReturnWith(call, Error(UnexpectedResponse))
    /\ UNCHANGED <<awaiting, outbox, inbox, wire, fs, warned, ncalls>>
    /\ UNCHANGED <<storeVars, coinVars>>

transfer_write_consignment_skipped ==
    /\ call.pc = "write_consignment"
    /\ call' = [call EXCEPT !.pc = "create_transaction_file"]
    /\ UNCHANGED <<awaiting, outbox, inbox, wire, result, fs, warned, ncalls>>
    /\ UNCHANGED <<storeVars, coinVars>>

\* transfer.consignment.write_file(PathBuf::from(&consignment_file))?
transfer_write_consignment ==
    /\ call.pc = "write_consignment"
    /\ \E io_ok \in BOOLEAN :
        IF io_ok
        THEN /\ fs' = [fs EXCEPT ![call.cfile] = strict_encoded(call.reply.consignment)]
             /\ call' = [call EXCEPT !.pc = "create_transaction_file"]
             /\ UNCHANGED result
        ELSE /\ ReturnWith(call, Error(StorageError))
             /\ UNCHANGED fs
    /\ UNCHANGED <<awaiting, outbox, inbox, wire, warned, ncalls>>
    /\ UNCHANGED <<storeVars, coinVars>>

\* File::create(&transaction_file).expect("can't create output transaction file")
transfer_create_file ==
    /\ call.pc = "create_transaction_file"
    /\ \E io_ok \in BOOLEAN :
        IF io_ok
        THEN /\ fs' = [fs EXCEPT ![call.tfile] = Truncated]
             /\ call' = [call EXCEPT !.pc = "encode_transaction"]
             /\ UNCHANGED result
        ELSE /\ ReturnWith(call, Panic("expect"))
             /\ UNCHANGED fs
    /\ UNCHANGED <<awaiting, outbox, inbox, wire, warned, ncalls>>
    /\ UNCHANGED <<storeVars, coinVars>>

transfer_encode_ignores_error ==
    /\ call.pc = "encode_transaction"
    /\ \E io_ok \in BOOLEAN :
        /\ fs' = [fs EXCEPT ![call.tfile] =
                     IF io_ok THEN consensus_encoded(call.reply.psbt) ELSE Truncated]
        /\ ReturnWith(call, OkUnit)
    /\ UNCHANGED <<awaiting, outbox, inbox, wire, warned, ncalls>>
    /\ UNCHANGED <<storeVars, coinVars>>

\* transfer.psbt.consensus_encode(out_file)?; Ok(())
transfer_encode ==
    /\ call.pc = "encode_transaction"
    /\ \E io_ok \in BOOLEAN :
        IF io_ok
        THEN /\ fs' = [fs EXCEPT ![call.tfile] = consensus_encoded(call.reply.psbt)]
             /\ ReturnWith(call, OkUnit)
        ELSE /\ UNCHANGED fs
             /\ ReturnWith(call, Error(ConsensusError))
    /\ UNCHANGED <<awaiting, outbox, inbox, wire, warned, ncalls>>
    /\ UNCHANGED <<storeVars, coinVars>>

----------------------------------------------------------------------------
(* Allocations: Outcoins, Outcoincealed, their seals and their text forms *)

\* Option<Txid>
NoTxid == [some |-> FALSE]

SomeTxid(txid) == [some |-> TRUE, txid |-> txid]

\* a Txid and an OutpointHash: HexLen hex digits, as digit values
Txids == {[i \in 1..HexLen |-> IF i % 2 = 1 THEN 10 ELSE 1],
          [i \in 1..HexLen |-> IF i % 2 = 1 THEN 15 ELSE 0]}

\* AccountingValue: a decimal amount, its digits and how many are fractional
Amount(digits, frac) == [digits |-> digits, frac |-> frac]

Amounts == {Amount(100, 0), Amount(5, 1)}

Outcoins == [coins : Amounts, vout : {0, 2}, txid : {NoTxid} \cup {SomeTxid(x) : x \in Txids}]

Outcoincealed == [coins : Amounts, seal_confidential : Txids]

Entropy == 0..(Pow(2, EntropyBits) - 1)

seal_definition_shape_from_amount(self, entropy) ==
    IF self.txid.some /\ self.coins.frac = 0
    THEN [variant |-> "TxOutpoint", blinding |-> entropy,
          txid |-> self.txid.txid, vout |-> self.vout]
    ELSE [variant |-> "WitnessVout", vout |-> self.vout, blinding |-> entropy]

seal_definition_blinding_from_vout(self, entropy) ==
    IF self.txid.some
    THEN [variant |-> "TxOutpoint", blinding |-> self.vout % Pow(2, EntropyBits),
          txid |-> self.txid.txid, vout |-> self.vout]
    ELSE [variant |-> "WitnessVout", vout |-> self.vout,
          blinding |-> self.vout % Pow(2, EntropyBits)]

\* Outcoins::seal_definition, entropy being what rng.next_u64() returned
seal_definition(self, entropy) ==
    IF self.txid.some
    THEN [variant |-> "TxOutpoint", blinding |-> entropy,
          txid |-> self.txid.txid, vout |-> self.vout]
    ELSE [variant |-> "WitnessVout", vout |-> self.vout, blinding |-> entropy]

\* the allocations seals are made of: with and without a transaction id, and
\* two that differ in the amount only
SealedOutcoins ==
    {[coins |-> Amount(100, 0), vout |-> 2, txid |-> SomeTxid(CHOOSE x \in Txids : TRUE)],
     [coins |-> Amount(5, 1), vout |-> 2, txid |-> SomeTxid(CHOOSE x \in Txids : TRUE)],
     [coins |-> Amount(5, 1), vout |-> 0, txid |-> NoTxid]}

\* one call: thread_rng().next_u64() returns any value, &self is only read
SealDefinitionCall ==
    /\ text_call.op = "none"
    /\ Len(seals) < MaxSeals
    /\ \E self \in SealedOutcoins, entropy \in Entropy :
          seals' = Append(seals, [self |-> self, entropy |-> entropy, after |-> self,
                                  seal |-> seal_definition(self, entropy)])
    /\ UNCHANGED <<text_call, storeVars, clientVars>>

\* text: a sequence of characters
Digits == <<"0", "1", "2", "3", "4", "5", "6", "7", "8", "9">>

HexDigits == Digits \o <<"a", "b", "c", "d", "e", "f">>

DigitChars == Range(Digits)

HexChars == Range(HexDigits)

\* the amount class of the patterns: [\d.,_']
CoinChars == DigitChars \cup {".", ",", "_", "'"}

RECURSIVE Flatten(_)
Flatten(ss) == IF ss = <<>> THEN <<>> ELSE Head(ss) \o Flatten(Tail(ss))

\* decimal text of a natural number
RECURSIVE Decimal(_)
Decimal(n) ==
    IF n < 10 THEN <<Digits[n + 1]>> ELSE Decimal(n \div 10) \o <<Digits[(n % 10) + 1]>>

\* value of a text of decimal digits
RECURSIVE DecimalValue(_)
DecimalValue(s) ==
    IF s = <<>> THEN 0
    ELSE 10 * DecimalValue(SubSeq(s, 1, Len(s) - 1))
         + (CHOOSE d \in 0..9 : Digits[d + 1] = s[Len(s)])

\* the k last decimal digits of n
RECURSIVE Fraction(_, _)
Fraction(n, k) ==
    IF k = 0 THEN <<>> ELSE Fraction(n \div 10, k - 1) \o <<Digits[(n % 10) + 1]>>

\* Debug of f32: the integer part, a point, the fraction (".0" when there is none)
Debug_f32(a) ==
    IF a.frac = 0 THEN Decimal(a.digits) \o <<".", "0">>
    ELSE Decimal(a.digits \div Pow(10, a.frac)) \o <<".">>
         \o Fraction(a.digits % Pow(10, a.frac), a.frac)

\* Debug of a Txid / OutpointHash: its lowercase hex
Debug_hash(h) == [i \in 1..Len(h) |-> HexDigits[h[i] + 1]]

\* #[display(Debug)]: Display prints the derived Debug form of the struct
Outcoins_to_string(self) ==
    Flatten(<<<<"O", "u", "t", "c", "o", "i", "n", "s", " ", "{", " ", "c", "o", "i", "n", "s", ":", " ">>, Debug_f32(self.coins),
              <<",", " ", "v", "o", "u", "t", ":", " ">>, Decimal(self.vout),
              <<",", " ", "t", "x", "i", "d", ":", " ">>,
              IF self.txid.some
              THEN <<"S", "o", "m", "e", "(">> \o Debug_hash(self.txid.txid) \o <<")">>
              ELSE <<"N", "o", "n", "e">>,
              <<" ", "}">>>>)

Outcoincealed_to_string(self) ==
    Flatten(<<<<"O", "u", "t", "c", "o", "i", "n", "c", "e", "a", "l", "e", "d", " ", "{", " ", "c", "o", "i", "n", "s", ":", " ">>, Debug_f32(self.coins),
              <<",", " ", "s", "e", "a", "l", "_", "c", "o", "n", "f", "i", "d", "e", "n", "t", "i", "a", "l", ":", " ">>, Debug_hash(self.seal_confidential),
              <<" ", "}">>>>)

\* ParseError, the one error of from_str
ParseOk(v) == [ok |-> TRUE, value |-> v]

ParseErr == [ok |-> FALSE, err |-> "ParseError"]

\* str::to_ascii_lowercase
to_ascii_lowercase(s) ==
    LET UpperCase == <<"A", "B", "C", "D", "E", "F", "G", "H", "I", "J", "K", "L", "M",
                       "N", "O", "P", "Q", "R", "S", "T", "U", "V", "W", "X", "Y", "Z">>
        LowerCase == <<"a", "b", "c", "d", "e", "f", "g", "h", "i", "j", "k", "l", "m",
                       "n", "o", "p", "q", "r", "s", "t", "u", "v", "w", "x", "y", "z">>
    IN  [i \in 1..Len(s) |->
            IF \E k \in 1..Len(UpperCase) : UpperCase[k] = s[i]
            THEN LowerCase[CHOOSE k \in 1..Len(UpperCase) : UpperCase[k] = s[i]]
            ELSE s[i]]

\* \d of the regex crate: any decimal digit of Unicode, here the ASCII digits
\* and ARABIC-INDIC DIGIT THREE
RegexDigits == DigitChars \cup {"U+0663"}

Outcoins_captures_txid_optional(s) ==
    LET full == {i \in 2..Len(s) :
                    /\ s[i] = "@"
                    /\ \A j \in 1..(i - 1) : s[j] \in (CoinChars \cup RegexDigits)
                    /\ Len(s) >= i + HexLen + 2
                    /\ \A j \in (i + 1)..(i + HexLen) : s[j] \in ({"a", "b", "c", "d", "e", "f"} \cup RegexDigits)
                    /\ s[i + HexLen + 1] = ":"
                    /\ \A j \in (i + HexLen + 2)..Len(s) : s[j] \in RegexDigits}
        bare == {i \in 2..Len(s) :
                    /\ s[i] = "@"
                    /\ \A j \in 1..(i - 1) : s[j] \in (CoinChars \cup RegexDigits)
                    /\ Len(s) >= i + 1
                    /\ \A j \in (i + 1)..Len(s) : s[j] \in RegexDigits}
    IN  IF full # {}
        THEN LET i == CHOOSE k \in full : TRUE
             IN  [matched |-> TRUE,
                  coins |-> [some |-> TRUE, text |-> SubSeq(s, 1, i - 1)],
                  txid |-> [some |-> TRUE, text |-> SubSeq(s, i + 1, i + HexLen)],
                  vout |-> [some |-> TRUE, text |-> SubSeq(s, i + HexLen + 2, Len(s))]]
        ELSE IF bare # {}
        THEN LET i == CHOOSE k \in bare : TRUE
             IN  [matched |-> TRUE,
                  coins |-> [some |-> TRUE, text |-> SubSeq(s, 1, i - 1)],
                  txid |-> [some |-> FALSE],
                  vout |-> [some |-> TRUE, text |-> SubSeq(s, i + 1, Len(s))]]
        ELSE [matched |-> FALSE]

\* re.captures for ^(?P<coins>[\d.,_']+)@((?P<txid>[a-f\d]{64}):)(?P<vout>\d+)$
\* the txid being HexLen characters here
Outcoins_captures(s) ==
    LET at == {i \in 2..Len(s) :
                    /\ s[i] = "@"
                    /\ \A j \in 1..(i - 1) : s[j] \in (CoinChars \cup RegexDigits)
                    /\ Len(s) >= i + HexLen + 2
                    /\ \A j \in (i + 1)..(i + HexLen) : s[j] \in ({"a", "b", "c", "d", "e", "f"} \cup RegexDigits)
                    /\ s[i + HexLen + 1] = ":"
                    /\ \A j \in (i + HexLen + 2)..Len(s) : s[j] \in RegexDigits}
    IN  IF at # {}
        THEN LET i == CHOOSE k \in at : TRUE
             IN  [matched |-> TRUE,
                  coins |-> [some |-> TRUE, text |-> SubSeq(s, 1, i - 1)],
                  txid |-> [some |-> TRUE, text |-> SubSeq(s, i + 1, i + HexLen)],
                  vout |-> [some |-> TRUE, text |-> SubSeq(s, i + HexLen + 2, Len(s))]]
        ELSE [matched |-> FALSE]

\* re.captures for ^(?P<coins>[\d.,_']+)@((?P<seal>[a-f\d]{64}))$
Outcoincealed_captures(s) ==
    LET at == {i \in 2..Len(s) :
                    /\ s[i] = "@"
                    /\ \A j \in 1..(i - 1) : s[j] \in (CoinChars \cup RegexDigits)
                    /\ Len(s) = i + HexLen
                    /\ \A j \in (i + 1)..Len(s) : s[j] \in ({"a", "b", "c", "d", "e", "f"} \cup RegexDigits)}
    IN  IF at # {}
        THEN LET i == CHOOSE k \in at : TRUE
             IN  [matched |-> TRUE,
                  coins |-> [some |-> TRUE, text |-> SubSeq(s, 1, i - 1)],
                  seal |-> [some |-> TRUE, text |-> SubSeq(s, i + 1, Len(s))]]
        ELSE [matched |-> FALSE]

\* the amount without the trailing zeros of its fraction
RECURSIVE Normal(_)
Normal(a) ==
    IF a.frac > 0 /\ a.digits % 10 = 0
    THEN Normal(Amount(a.digits \div 10, a.frac - 1))
    ELSE a

\* str::parse::<f32>: ASCII digits with at most one point and at least one digit
parse_f32(text) ==
    LET points == {i \in 1..Len(text) : text[i] = "."}
        digits == SelectSeq(text, LAMBDA c : c \in DigitChars)
    IN  IF /\ \A i \in 1..Len(text) : text[i] \in DigitChars \cup {"."}
           /\ Cardinality(points) <= 1
           /\ digits # <<>>
        THEN ParseOk(Normal(Amount(DecimalValue(digits),
                                   IF points = {} THEN 0
                                   ELSE Len(text) - (CHOOSE i \in points : TRUE))))
        ELSE ParseErr

\* str::parse::<u32>: ASCII digits of a value that fits the width
parse_u32(text) ==
    IF /\ text # <<>>
       /\ \A i \in 1..Len(text) : text[i] \in DigitChars
       /\ DecimalValue(text) < Pow(2, VoutBits)
    THEN ParseOk(DecimalValue(text))
    ELSE ParseErr

\* Txid::from_hex, OutpointHash::from_hex: a hash of HexLen hex digits
hash_from_hex(text) ==
    IF Len(text) = HexLen /\ \A i \in 1..Len(text) : text[i] \in HexChars
    THEN ParseOk([i \in 1..Len(text) |->
                    (CHOOSE d \in 0..15 : HexDigits[d + 1] = text[i])])
    ELSE ParseErr

Outcoins_from_str_regex_txid_optional(s) ==
    LET m == Outcoins_captures_txid_optional(to_ascii_lowercase(s))
    IN  IF ~m.matched THEN ParseErr
        ELSE IF m.txid.some
        THEN IF parse_f32(m.coins.text).ok /\ parse_u32(m.vout.text).ok
                /\ hash_from_hex(m.txid.text).ok
             THEN ParseOk([coins |-> parse_f32(m.coins.text).value,
                           vout |-> parse_u32(m.vout.text).value,
                           txid |-> SomeTxid(hash_from_hex(m.txid.text).value)])
             ELSE ParseErr
        ELSE IF parse_f32(m.coins.text).ok /\ parse_u32(m.vout.text).ok
             THEN ParseOk([coins |-> parse_f32(m.coins.text).value,
                           vout |-> parse_u32(m.vout.text).value,
                           txid |-> NoTxid])
             ELSE ParseErr

\* <Outcoins as FromStr>::from_str
Outcoins_from_str(s) ==
    LET m == Outcoins_captures(to_ascii_lowercase(s))
    IN  IF ~m.matched THEN ParseErr
        ELSE IF m.coins.some /\ m.txid.some /\ m.vout.some
        THEN IF parse_f32(m.coins.text).ok /\ parse_u32(m.vout.text).ok
                /\ hash_from_hex(m.txid.text).ok
             THEN ParseOk([coins |-> parse_f32(m.coins.text).value,
                           vout |-> parse_u32(m.vout.text).value,
                           txid |-> SomeTxid(hash_from_hex(m.txid.text).value)])
             ELSE ParseErr
        ELSE IF m.coins.some /\ ~m.txid.some /\ m.vout.some
        THEN IF parse_f32(m.coins.text).ok /\ parse_u32(m.vout.text).ok
             THEN ParseOk([coins |-> parse_f32(m.coins.text).value,
                           vout |-> parse_u32(m.vout.text).value,
                           txid |-> NoTxid])
             ELSE ParseErr
        ELSE ParseErr

\* <Outcoincealed as FromStr>::from_str
Outcoincealed_from_str(s) ==
    LET m == Outcoincealed_captures(to_ascii_lowercase(s))
    IN  IF ~m.matched THEN ParseErr
        ELSE IF m.coins.some /\ m.seal.some
        THEN IF parse_f32(m.coins.text).ok /\ hash_from_hex(m.seal.text).ok
             THEN ParseOk([coins |-> parse_f32(m.coins.text).value,
                           seal_confidential |-> hash_from_hex(m.seal.text).value])
             ELSE ParseErr
        ELSE ParseErr

----------------------------------------------------------------------------
(* Specification of the store *)

\* DiskStorage::new on a fresh data directory: both record directories empty.
\* The client is idle and stays so.
InitStore ==
    /\ disk = <<>>
    /\ ret = [op |-> "new", res |-> OkFlag(TRUE)]
    /\ stored_schemata = {}
    /\ stored_geneses = {}
    /\ awaiting = [c \in Channels |-> FALSE]
    /\ outbox = [c \in Channels |-> <<>>]
    /\ inbox = [c \in Channels |-> <<>>]
    /\ wire = [c \in Channels |-> <<>>]
    /\ fs = [p \in TransferPaths |-> Absent]
    /\ call = IdleCall
    /\ result = Running
    /\ warned = {}
    /\ ncalls = 0
    /\ seals = <<>>
    /\ text_call = [op |-> "none"]

StoreSchemaIds   == schema_ids /\ UNCHANGED <<clientVars, coinVars>>
StoreSchema      == (\E id \in SchemaIds : schema(id)) /\ UNCHANGED <<clientVars, coinVars>>
StoreHasSchema   == (\E id \in SchemaIds : has_schema(id)) /\ UNCHANGED <<clientVars, coinVars>>
StoreAddSchema   == (\E s \in Schema : add_schema(s)) /\ UNCHANGED <<clientVars, coinVars>>
StoreRemoveSchema == (\E id \in SchemaIds : remove_schema(id)) /\ UNCHANGED <<clientVars, coinVars>>
StoreContractIds == contract_ids /\ UNCHANGED <<clientVars, coinVars>>
StoreGenesis     == (\E id \in ContractIds : genesis(id)) /\ UNCHANGED <<clientVars, coinVars>>
StoreHasGenesis  == (\E id \in ContractIds : has_genesis(id)) /\ UNCHANGED <<clientVars, coinVars>>
StoreAddGenesis  == (\E g \in Genesis : add_genesis(g)) /\ UNCHANGED <<clientVars, coinVars>>
StoreRemoveGenesis == (\E id \in ContractIds : remove_genesis(id)) /\ UNCHANGED <<clientVars, coinVars>>

NextStore ==
    \/ StoreSchemaIds
    \/ StoreSchema
    \/ StoreHasSchema
    \/ StoreAddSchema
    \/ StoreRemoveSchema
    \/ StoreContractIds
    \/ StoreGenesis
    \/ StoreHasGenesis
    \/ StoreAddGenesis
    \/ StoreRemoveGenesis

SpecStore == InitStore /\ [][NextStore]_vars

----------------------------------------------------------------------------
(* Specification of the store on a data directory that other programs have  *)
(* left files in: names that are no identifiers, and files of another kind  *)

\* a name with a character that is no hex digit, a name one digit short
BadCharName == [i \in 1..HexLen |-> 16]

ShortName == [i \in 1..(HexLen - 1) |-> 1]

ForeignFiles ==
    {[dir |-> schemata_dir, stem |-> BadCharName, ext |-> RGB_EXTENSION],
     [dir |-> schemata_dir, stem |-> ShortName, ext |-> "tmp"],
     [dir |-> geneses_dir, stem |-> ShortName, ext |-> RGB_EXTENSION]}

\* DiskStorage::new on an existing data directory
InitForeign ==
    /\ \E F \in SUBSET ForeignFiles : disk = [p \in F |-> <<>>]
    /\ ret = [op |-> "new", res |-> OkFlag(TRUE)]
    /\ stored_schemata = {}
    /\ stored_geneses = {}
    /\ awaiting = [c \in Channels |-> FALSE]
    /\ outbox = [c \in Channels |-> <<>>]
    /\ inbox = [c \in Channels |-> <<>>]
    /\ wire = [c \in Channels |-> <<>>]
    /\ fs = [p \in TransferPaths |-> Absent]
    /\ call = IdleCall
    /\ result = Running
    /\ warned = {}
    /\ ncalls = 0
    /\ seals = <<>>
    /\ text_call = [op |-> "none"]

SpecForeign == InitForeign /\ [][NextStore]_vars

----------------------------------------------------------------------------
(* Specification of the client: one thread owning one runtime, a            *)
(* cli::Runtime or an i9n::Runtime (its first call tells which), and the    *)
(* backends of its channels.  Runtimes share no state, so what one thread   *)
(* sees on its runtime is what it sees beside other threads' runtimes.      *)

\* Runtime::init of both runtimes: sockets connected, nothing sent; of the
\* files transfer may write one is absent and one is left from an earlier run.
\* The store is fresh and stays so.
Init ==
    /\ disk = <<>>
    /\ ret = [op |-> "new", res |-> OkFlag(TRUE)]
    /\ stored_schemata = {}
    /\ stored_geneses = {}
    /\ awaiting = [c \in Channels |-> FALSE]
    /\ outbox = [c \in Channels |-> <<>>]
    /\ inbox = [c \in Channels |-> <<>>]
    /\ wire = [c \in Channels |-> <<>>]
    /\ fs = [p \in TransferPaths |-> IF p = "transfer.psbt" THEN OldFile ELSE Absent]
    /\ call = IdleCall
    /\ result = Running
    /\ warned = {}
    /\ ncalls = 0
    /\ seals = <<>>
    /\ text_call = [op |-> "none"]

Next ==
    \/ cli_list_schemata
    \/ cli_list_geneses
    \/ cli_schema
    \/ cli_genesis
    \/ cli_list
    \/ cli_import
    \/ cli_export
    \/ cli_issue
    \/ cli_transfer
    \/ cli_validate
    \/ cli_accept
    \/ cli_forget
    \/ stash_command_send
    \/ stash_command_recv
    \/ fungible_command_send
    \/ fungible_command_recv
    \/ cli_return
    \/ issue
    \/ sync
    \/ outpoint_assets
    \/ transfer
    \/ command_send
    \/ command_recv
    \/ issue_match
    \/ sync_match
    \/ outpoint_assets_match
    \/ transfer_match
    \/ transfer_write_consignment
    \/ transfer_create_file
    \/ transfer_encode
    \/ BackendReply

Spec == Init /\ [][Next]_vars

\* The same client with a thread that keeps running and backends that answer:
\* a reply is received once it has arrived, a request is answered once sent
SpecLive ==
    /\ Init
    /\ [][Next]_vars
    /\ WF_vars(BackendReply)
    /\ WF_vars(stash_command_recv)
    /\ WF_vars(fungible_command_recv)
    /\ WF_vars(command_recv)

----------------------------------------------------------------------------
(* Claims about the stash store, checked under SpecStore *)

StoredSchemaIds == {schema_id(s) : s \in stored_schemata}

StoredContractIds == {contract_id(g) : g \in stored_geneses}

C2_AbsentIsNotFoundKind ==
    /\ (ret.op \in {"schema", "remove_schema"} /\ ret.id \notin StoredSchemaIds
          /\ ~ret.res.ok)
          => ret.res.err.variant \notin {"Io", "Encoding"}
    /\ (ret.op \in {"genesis", "remove_genesis"} /\ ret.id \notin StoredContractIds
          /\ ~ret.res.ok)
          => ret.res.err.variant \notin {"Io", "Encoding"}
    /\ (ret.op = "schema" /\ ret.id \notin StoredSchemaIds) => ~ret.res.ok
    /\ (ret.op = "genesis" /\ ret.id \notin StoredContractIds) => ~ret.res.ok
    /\ (ret.op = "has_schema" /\ ret.id \notin StoredSchemaIds)
          => ret.res = OkFlag(FALSE)
    /\ (ret.op = "has_genesis" /\ ret.id \notin StoredContractIds)
          => ret.res = OkFlag(FALSE)

\* C3: a successful add_schema (add_genesis) returns true exactly when the
\* record was in the store immediately before the call; adding a record that
\* is already stored returns true and leaves the store as it was, and the
\* record is stored afterwards.
C3_AddReturnsWhetherPresent ==
    [][ /\ (ret'.op = "add_schema" /\ ret'.res.ok)
            => /\ ret'.res.flag = (ret'.schema \in stored_schemata)
               /\ ret'.res.flag = has_schema_of(schema_id(ret'.schema)).flag
               /\ ret'.schema \in stored_schemata
                     => (disk' = disk /\ stored_schemata' = stored_schemata)
               /\ ret'.schema \in stored_schemata'
        /\ (ret'.op = "add_genesis" /\ ret'.res.ok)
            => /\ ret'.res.flag = (ret'.genesis \in stored_geneses)
               /\ ret'.res.flag = has_genesis_of(contract_id(ret'.genesis)).flag
               /\ ret'.genesis \in stored_geneses
                     => (disk' = disk /\ stored_geneses' = stored_geneses)
               /\ ret'.genesis \in stored_geneses'
      ]_vars

\* the second add of a record returned true
C3_Witness ==
    /\ ret.op = "add_schema"
    /\ ret.res.ok
    /\ ret.res.flag

\* C4: in every state reached by adds and removes on an initially empty store,
\* schema_ids (contract_ids) succeeds and lists, once each, exactly the ids of
\* the records added and not successfully removed since.
C4_ListingIsStoredIds ==
    /\ \A names \in Orders(schema_names) :
          /\ schema_ids_of(names).ok
          /\ Range(schema_ids_of(names).ids) = StoredSchemaIds
          /\ Len(schema_ids_of(names).ids) = Cardinality(stored_schemata)
    /\ \A names \in Orders(genesis_names) :
          /\ contract_ids_of(names).ok
          /\ Range(contract_ids_of(names).ids) = StoredContractIds
          /\ Len(contract_ids_of(names).ids) = Cardinality(stored_geneses)
    /\ (ret.op = "schema_ids" /\ ret.res.ok)
          => Range(ret.res.ids) = StoredSchemaIds
    /\ (ret.op = "contract_ids" /\ ret.res.ok)
          => Range(ret.res.ids) = StoredContractIds

\* a listing of one schema id, made while a genesis is stored too
C4_Witness ==
    /\ ret.op = "schema_ids"
    /\ ret.res.ok
    /\ Len(ret.res.ids) = 1
    /\ stored_geneses # {}

----------------------------------------------------------------------------
(* Claims about the request/reply client, checked under Spec *)

Alternates(w) ==
    \A i \in DOMAIN w : w[i] = IF i % 2 = 1 THEN "request" ELSE "reply"

InTransfer == call.rt = "i9n" /\ call.op = "transfer"

\* C5, as stated: on every channel the messages alternate request, reply with
\* no second request while a reply is outstanding, and every call of a command
\* function that has returned sent exactly one request and consumed exactly
\* one reply.
C5_EveryCommandCallSendsAndReceivesOnce ==
    /\ \A c \in Channels : Alternates(wire[c])
    /\ (call.pc = "idle" /\ call.entered /\ result.kind \in {"Ok", "Err"})
          => (call.sent = 1 /\ call.recvd = 1)

\* C5, amended: on every channel the messages alternate request, reply, and
\* no request is sent while a reply is outstanding; a call of a command
\* function sends at most one request and consumes at most one reply, never a
\* reply before its request; a call that obtained a reply sent exactly one
\* request and consumed exactly one reply; a call that failed at encoding or
\* sending sent nothing and consumed nothing.
C5_RequestReplyAlternation ==
    /\ \A c \in Channels :
          /\ Alternates(wire[c])
          /\ Len(outbox[c]) + Len(inbox[c]) <= 1
          /\ (outbox[c] # <<>> \/ inbox[c] # <<>>) => awaiting[c]
          /\ Len(wire[c]) % 2 = 1 <=> outbox[c] # <<>>
    /\ call.sent <= 1
    /\ call.recvd <= call.sent
    /\ call.reply # NoReply => (call.sent = 1 /\ call.recvd = 1)
    /\ result.kind = "Ok" => (call.sent = 1 /\ call.recvd = 1)
    /\ (call.pc = "idle" /\ call.entered /\ call.stage = "assembling")
          => (call.sent = 0 /\ call.recvd = 0 /\ result.kind = "Err")

\* two complete exchanges on one channel, the second call having returned
C5_Witness ==
    /\ \E c \in Channels : wire[c] = <<"request", "reply", "request", "reply">>
    /\ call.pc = "idle"
    /\ result.kind = "Ok"
    /\ call.sent = 1
    /\ call.recvd = 1

\* the reply shapes an operation accepts as its success payload, as stated
SuccessTags(rt, op) ==
    IF rt = "cli" THEN {r.tag : r \in Replies} \ {"Failure"}
    ELSE IF op = "issue" THEN {"Success"}
    ELSE IF op = "sync" THEN {"Sync"}
    ELSE IF op = "outpoint_assets" THEN {"Assets"}
    ELSE {"Transfer"}

Decided == call.pc = "idle" /\ call.reply # NoReply

C7_NoArtifactsBeforeSettling ==
    /\ (InTransfer /\ call.stage # "settling") => fs = call.fs0
    /\ (InTransfer /\ call.stage # "settling" /\ call.pc = "idle")
          => result.kind \in {"Err", "Panic"}

\* transfer returned the backend's failure while an older template file exists
C7_Witness ==
    /\ InTransfer
    /\ call.pc = "idle"
    /\ call.stage = "awaiting"
    /\ result.kind = "Err"
    /\ result.err.variant = "Reply"
    /\ fs[call.tfile] = OldFile

\* C8, as stated: when transfer returns success, the consignment file holds
\* the reply's proof bundle in the deterministic binary encoding and the
\* transaction file holds the reply's template in chain format.
C8_SuccessMeansBothArtifacts ==
    (InTransfer /\ call.pc = "idle" /\ result.kind = "Ok")
        => /\ fs[call.cfile] = strict_encoded(call.reply.consignment)
           /\ fs[call.tfile] = consensus_encoded(call.reply.psbt)

\* C8, amended: when transfer returns success the reply was a transfer
\* payload, the transaction file holds the reply's template in chain format
\* and, provided the two paths name different files, the consignment file
\* holds the reply's proof bundle; success is never returned with a truncated
\* or older transaction file.
C8_SuccessMeansArtifactsWritten ==
    (InTransfer /\ call.pc = "idle" /\ result.kind = "Ok")
        => /\ call.reply.tag = "Transfer"
           /\ call.stage = "settling"
           /\ fs[call.tfile] = consensus_encoded(call.reply.psbt)
           /\ call.cfile # call.tfile
                 => fs[call.cfile] = strict_encoded(call.reply.consignment)

\* transfer succeeded with two different paths, replacing the older template
C8_Witness ==
    /\ InTransfer
    /\ call.pc = "idle"
    /\ result = OkUnit
    /\ call.cfile # call.tfile
    /\ call.fs0[call.tfile] = OldFile
    /\ fs[call.cfile].fmt = "strict"

\* C9: transfer to an address destination and a listing in an unsupported
\* output format return an unsupported-operation error value to the caller,
\* without sending a request and without touching a file.
C9_UnsupportedIsAnErrorValue ==
    /\ (InTransfer /\ call.pc = "idle" /\ call.dest = "Address")
          => /\ result.kind = "Err"
             /\ call.sent = 0
             /\ fs = call.fs0
    /\ (call.rt = "cli" /\ call.op = "list" /\ call.pc = "idle"
          /\ call.format \notin DataFormat)
          => /\ result.kind = "Err"
             /\ call.sent = 0

\* C10: in the template transfer is about to send, every output of the decoded
\* template that has key-derivation metadata carries one proprietary entry
\* under the commitment-key identifier, whose value is the compressed
\* serialization of the first key of that metadata, the rest of the output
\* being unchanged; an output without metadata is unchanged and a warning with
\* its index is emitted, and the call goes on; transfer returns an error from
\* Assembling before the request only when the template was not decoded.
C10_CommitmentKeyInjection ==
    /\ (InTransfer /\ call.pc = "send") =>
          LET orig == call.proto.outputs
              new  == call.cmd.api.psbt.outputs
          IN  /\ call.decoded
              /\ result = Running
              /\ DOMAIN new = DOMAIN orig
              /\ call.cmd.api.psbt.global = call.proto.global
              /\ \A i \in DOMAIN orig :
                    IF orig[i].hd_keypaths # {}
                    THEN /\ new[i].hd_keypaths = orig[i].hd_keypaths
                         /\ {e \in new[i].proprietary : e.key = RgbOutPubkey} =
                               {[key |-> RgbOutPubkey,
                                 value |-> to_bytes(Min(orig[i].hd_keypaths))]}
                         /\ {e \in new[i].proprietary : e.key # RgbOutPubkey} =
                               {e \in orig[i].proprietary : e.key # RgbOutPubkey}
                         /\ (i - 1) \notin warned
                    ELSE /\ new[i] = orig[i]
                         /\ (i - 1) \in warned
              /\ warned \subseteq {i - 1 : i \in DOMAIN orig}
    /\ (InTransfer /\ call.pc = "idle" /\ call.stage = "assembling"
          /\ ~call.entered /\ result.kind = "Err")
          => (~call.decoded /\ result.err.variant \in {"Base64", "ConsensusEncoding"})

\* a template with two keys on its first output and no metadata on its second
C10_Witness ==
    /\ InTransfer
    /\ call.pc = "send"
    /\ Len(call.proto.outputs) = 2
    /\ call.proto.outputs[1].hd_keypaths = Keys
    /\ call.proto.outputs[2].hd_keypaths = {}
    /\ warned = {1}

----------------------------------------------------------------------------
(* Specification of the allocations: seal_definition calls with whatever    *)
(* the random generator returns, to_string and from_str calls on texts      *)

\* the pieces the texts given to from_str are put together from
CoinTexts ==
    {<<>>, <<"1", "0", "0">>, <<"0", ".", "5">>, <<"1", ",", "5">>,
     <<"1", ".", "5", ".", "2">>, <<" ", "1">>, <<"U+0663">>}

HashTexts ==
    {<<>>,
     [i \in 1..HexLen |-> IF i % 2 = 1 THEN "a" ELSE "1"],
     [i \in 1..HexLen |-> IF i % 2 = 1 THEN "F" ELSE "0"],
     [i \in 1..HexLen |-> IF i % 2 = 1 THEN "a" ELSE "g"],
     [i \in 1..HexLen |-> IF i % 2 = 1 THEN "a" ELSE "U+0663"],
     [i \in 1..(HexLen - 1) |-> "a"],
     [i \in 1..(HexLen + 1) |-> "a"]}

VoutTexts ==
    {<<>>, <<"0">>, <<"0", "2">>, Decimal(Pow(2, VoutBits) - 1), Decimal(Pow(2, VoutBits)),
     <<"-", "1">>, <<"U+0663">>}

OutcoinsTexts ==
    {Flatten(<<c, a, h, s, v>>) :
        c \in CoinTexts, a \in {<<>>, <<"@">>}, h \in HashTexts,
        s \in {<<>>, <<":">>}, v \in VoutTexts}

OutcoincealedTexts ==
    {Flatten(<<c, a, h, v>>) :
        c \in CoinTexts, a \in {<<>>, <<"@">>}, h \in HashTexts, v \in {<<>>, <<"0">>}}

OutcoinsToString ==
    /\ seals = <<>>
    /\ text_call.op = "none"
    /\ \E self \in Outcoins :
          text_call' = [op |-> "Outcoins::to_string", self |-> self,
                        text |-> Outcoins_to_string(self)]
    /\ UNCHANGED <<seals, storeVars, clientVars>>

OutcoincealedToString ==
    /\ seals = <<>>
    /\ text_call.op = "none"
    /\ \E self \in Outcoincealed :
          text_call' = [op |-> "Outcoincealed::to_string", self |-> self,
                        text |-> Outcoincealed_to_string(self)]
    /\ UNCHANGED <<seals, storeVars, clientVars>>

\* from_str on a text from elsewhere, or on the text to_string has just made;
\* the functions keep no state, so one call or one such pair is a whole run
OutcoinsFromStr ==
    /\ seals = <<>>
    /\ text_call.op \in {"none", "Outcoins::to_string"}
    /\ \E s \in OutcoinsTexts \cup
                {text_call.text : x \in {o \in {text_call.op} : o = "Outcoins::to_string"}} :
          text_call' = [op |-> "Outcoins::from_str", s |-> s,
                        shown |-> IF text_call.op = "Outcoins::to_string"
                                     /\ s = text_call.text
                                  THEN {text_call.self} ELSE {},
                        res |-> Outcoins_from_str(s)]
    /\ UNCHANGED <<seals, storeVars, clientVars>>

OutcoincealedFromStr ==
    /\ seals = <<>>
    /\ text_call.op \in {"none", "Outcoincealed::to_string"}
    /\ \E s \in OutcoincealedTexts \cup
                {text_call.text : x \in {o \in {text_call.op} : o = "Outcoincealed::to_string"}} :
          text_call' = [op |-> "Outcoincealed::from_str", s |-> s,
                        shown |-> IF text_call.op = "Outcoincealed::to_string"
                                     /\ s = text_call.text
                                  THEN {text_call.self} ELSE {},
                        res |-> Outcoincealed_from_str(s)]
    /\ UNCHANGED <<seals, storeVars, clientVars>>

InitCoins ==
    /\ disk = <<>>
    /\ ret = [op |-> "new", res |-> OkFlag(TRUE)]
    /\ stored_schemata = {}
    /\ stored_geneses = {}
    /\ awaiting = [c \in Channels |-> FALSE]
    /\ outbox = [c \in Channels |-> <<>>]
    /\ inbox = [c \in Channels |-> <<>>]
    /\ wire = [c \in Channels |-> <<>>]
    /\ fs = [p \in TransferPaths |-> Absent]
    /\ call = IdleCall
    /\ result = Running
    /\ warned = {}
    /\ ncalls = 0
    /\ seals = <<>>
    /\ text_call = [op |-> "none"]

NextCoins ==
    \/ SealDefinitionCall
    \/ OutcoinsToString
    \/ OutcoincealedToString
    \/ OutcoinsFromStr
    \/ OutcoincealedFromStr

SpecCoins == InitCoins /\ [][NextCoins]_vars

----------------------------------------------------------------------------
(* Further claims about the stash store *)

RecordFiles(dir) == {p \in DOMAIN disk : p.dir = dir /\ p.ext = RGB_EXTENSION}

IsIdName(stem) == Len(stem) = HexLen /\ \A i \in 1..Len(stem) : stem[i] \in 0..15

CorruptDir(dir) == \E p \in RecordFiles(dir) : ~IsIdName(p.stem)

\* C14: when the schemata (geneses) directory holds a record file whose name
\* is not hex of the identifier length, schema_ids (contract_ids), once it has
\* the directory's names, returns the broken-file-name error and no list,
\* whatever the order of the names; it returns a list only when every record
\* file name decodes, and the list then has one identifier per record file.
C14_CorruptNameFailsListing ==
    /\ \A names \in Orders(schema_names) :
          IF CorruptDir(schemata_dir)
          THEN schema_ids_of(names) = Err(BrokenHexFilenames)
          ELSE /\ schema_ids_of(names).ok
               /\ Len(schema_ids_of(names).ids) = Cardinality(RecordFiles(schemata_dir))
               /\ Range(schema_ids_of(names).ids) =
                     {HexValue(p.stem) : p \in RecordFiles(schemata_dir)}
    /\ \A names \in Orders(genesis_names) :
          IF CorruptDir(geneses_dir)
          THEN contract_ids_of(names) = Err(BrokenHexFilenames)
          ELSE /\ contract_ids_of(names).ok
               /\ Len(contract_ids_of(names).ids) = Cardinality(RecordFiles(geneses_dir))
               /\ Range(contract_ids_of(names).ids) =
                     {HexValue(p.stem) : p \in RecordFiles(geneses_dir)}
    /\ (ret.op = "schema_ids" /\ ret.res.ok)
          => (~CorruptDir(schemata_dir)
              /\ Len(ret.res.ids) = Cardinality(RecordFiles(schemata_dir)))
    /\ (ret.op = "contract_ids" /\ ret.res.ok)
          => (~CorruptDir(geneses_dir)
              /\ Len(ret.res.ids) = Cardinality(RecordFiles(geneses_dir)))

\* schema_ids failed on a broken name while two schemata are stored beside it
C14_Witness ==
    /\ ret.op = "schema_ids"
    /\ ret.res = Err(BrokenHexFilenames)
    /\ Cardinality(stored_schemata) = 2
    /\ Cardinality(RecordFiles(schemata_dir)) = 3

DirPart(d, dir) == [p \in {q \in DOMAIN d : q.dir = dir} |-> d[p]]

Except(d, path) == [p \in DOMAIN d \ {path} |-> d[p]]

SchemaOps == {"schema_ids", "schema", "has_schema", "add_schema", "remove_schema"}

GenesisOps == {"contract_ids", "genesis", "has_genesis", "add_genesis", "remove_genesis"}

ReadOps == {"schema_ids", "schema", "has_schema", "contract_ids", "genesis", "has_genesis"}

\* C15: every schema call leaves the files and the set of stored geneses as
\* they were, every genesis call leaves the stored schemata as they were, the
\* listing, fetching and existence calls leave the whole store as it was
\* whether they succeed or fail, and an add or remove changes at most the file
\* of the one id it addresses.
C15_KindsIndependentReadsPure ==
    [][ /\ ret'.op \in SchemaOps
            => /\ DirPart(disk', geneses_dir) = DirPart(disk, geneses_dir)
               /\ stored_geneses' = stored_geneses
        /\ ret'.op \in GenesisOps
            => /\ DirPart(disk', schemata_dir) = DirPart(disk, schemata_dir)
               /\ stored_schemata' = stored_schemata
        /\ ret'.op \in ReadOps
            => /\ disk' = disk
               /\ stored_schemata' = stored_schemata
               /\ stored_geneses' = stored_geneses
        /\ ret'.op = "add_schema"
            => Except(disk', schema_filename(schema_id(ret'.schema)))
                 = Except(disk, schema_filename(schema_id(ret'.schema)))
        /\ ret'.op = "remove_schema"
            => Except(disk', schema_filename(ret'.id))
                 = Except(disk, schema_filename(ret'.id))
        /\ ret'.op = "add_genesis"
            => Except(disk', genesis_filename(contract_id(ret'.genesis)))
                 = Except(disk, genesis_filename(contract_id(ret'.genesis)))
        /\ ret'.op = "remove_genesis"
            => Except(disk', genesis_filename(ret'.id))
                 = Except(disk, genesis_filename(ret'.id))
      ]_vars

\* a genesis was added while two schemata and a foreign file are in the store
C15_Witness ==
    /\ ret.op = "add_genesis"
    /\ ret.res.ok
    /\ Cardinality(stored_schemata) = 2
    /\ CorruptDir(schemata_dir)

----------------------------------------------------------------------------
(* Further claims about the request/reply client *)

StashOps == {"list_schemata", "list_geneses", "schema", "genesis"}

LastIsRequest(w) == w # <<>> /\ w[Len(w)] = "request"

\* what C17 says of a call that sends: never more than one request, whatever
\* its outcome, and none while a reply is awaited on the channel
NoResend ==
    /\ call'.sent <= 1
    /\ \A c \in Channels :
          (awaiting[c] /\ Len(wire'[c]) > Len(wire[c])) => ~LastIsRequest(wire'[c])
    /\ (call.pc # "send" /\ call'.pc # "send")
          => \A c \in Channels :
                Len(wire'[c]) > Len(wire[c]) => ~LastIsRequest(wire'[c])
    /\ (call.pc = "send" /\ call'.pc = "idle")
          => (call'.sent = 0 /\ wire' = wire /\ result'.kind = "Err")

\* C17, as stated: a call sends at most one request whatever its outcome; if
\* the backend answers every request the call eventually returns; if the
\* backend does not answer, the call does not return.
C17_BlocksUntilAnswered ==
    /\ [][NoResend]_vars
    /\ [][(call.pc = "recv" /\ inbox[call.chan] = <<>>) => call'.pc = "recv"]_vars
    /\ (call.pc = "recv") ~> (call.pc # "recv")

\* C17, amended: a call sends at most one request whatever its outcome (none
\* on an encoding or send error, none again after a receive or decoding
\* error); if the backend answers every request the call eventually returns;
\* while the backend has not answered, the call has no timeout: it leaves the
\* receive only when the transport reports a receive error, which it returns
\* having consumed nothing, and nothing further is sent on that channel.
C17_NoRetryNoTimeout ==
    /\ [][NoResend]_vars
    /\ [][(call.pc = "recv" /\ inbox[call.chan] = <<>> /\ call'.pc # "recv")
            => /\ result' = Error(ServiceError("Transport"))
               /\ call'.pc = "idle"
               /\ call'.recvd = call.recvd
               /\ wire' = wire
               /\ awaiting' = awaiting]_vars
    /\ (call.pc = "recv") ~> (call.pc # "recv")

\* a call returned the receive error while its request is still unanswered
C17_Witness ==
    /\ call.pc = "idle"
    /\ call.sent = 1
    /\ call.recvd = 0
    /\ result = Error(ServiceError("Transport"))
    /\ outbox[call.chan] # <<>>
    /\ awaiting[call.chan]

StageRank(s) ==
    IF s = "assembling" THEN 1 ELSE IF s = "awaiting" THEN 2
    ELSE IF s = "settling" THEN 3 ELSE 0

\* C18: transfer moves only forward through Assembling, Awaiting, Settling;
\* its request is sent only from Assembling with the destination resolved, the
\* template decoded and the commitment keys injected, and at most once; the
\* consignment file is written only after a transfer-result reply was
\* received, the transaction file only after the consignment file was
\* written; once transfer has returned, with an error or with success, it
\* takes no further step.
C18_TransferForwardOnly ==
    [][ (InTransfer /\ InTransfer' /\ ncalls' = ncalls) =>
          /\ StageRank(call'.stage) >= StageRank(call.stage)
          /\ call'.sent > call.sent
                => /\ call.stage = "assembling" /\ call'.stage = "awaiting"
                   /\ call.sent = 0
                   /\ call.dest = "BlindedUtxo"
                   /\ call.decoded
                   /\ call.cmd.tag = "Transfer"
                   /\ call.cmd.api.psbt = with_commitment_keys(call.proto)
          /\ call'.stage = "settling"
                => (call.reply.tag = "Transfer" /\ call.recvd = 1)
          /\ fs' # fs
                => /\ call.stage = "settling"
                   /\ call.reply.tag = "Transfer"
                   /\ \E p \in TransferPaths :
                         fs' = [fs EXCEPT ![p] = fs'[p]]
          /\ (fs' # fs /\ call.pc = "write_consignment")
                => fs' = [fs EXCEPT ![call.cfile] = strict_encoded(call.reply.consignment)]
          /\ (fs' # fs /\ call.pc # "write_consignment")
                => /\ call.pc \in {"create_transaction_file", "encode_transaction"}
                   /\ fs' = [fs EXCEPT ![call.tfile] = fs'[call.tfile]]
                   /\ call.pc = "create_transaction_file"
                         => fs[call.cfile] = strict_encoded(call.reply.consignment)
          /\ call.pc = "idle"
                => /\ call' = call /\ fs' = fs /\ result' = result
                   /\ awaiting' = awaiting
                   /\ Len(inbox'[call.chan]) >= Len(inbox[call.chan])
                   /\ Len(wire'[call.chan]) > Len(wire[call.chan])
                         => ~LastIsRequest(wire'[call.chan])
      ]_vars

\* transfer is in Settling with the consignment written and the transaction
\* file created, about to encode the template
C18_Witness ==
    /\ InTransfer
    /\ call.pc = "encode_transaction"
    /\ call.stage = "settling"
    /\ call.sent = 1
    /\ fs[call.cfile] = strict_encoded(call.reply.consignment)
    /\ fs[call.tfile] = Truncated

\* C19: the request transfer hands to command() carries the caller's inputs
\* and the caller's own allocations unchanged, the contract id of the invoice,
\* and exactly one counterparty allocation, whose amount is the invoice's
\* amount and whose seal is the invoice's concealed-seal reference, with no
\* other field: no blinding factor and no revealed seal of the counterparty.
C19_TransferRequestContent ==
    (InTransfer /\ call.pc = "send") =>
        LET api == call.cmd.api
        IN  /\ call.cmd.tag = "Transfer"
            /\ api.inputs = call.args.inputs
            /\ api.ours = call.args.allocate
            /\ api.contract_id = call.args.invoice.contract_id
            /\ Len(api.theirs) = 1
            /\ DOMAIN api.theirs[1] = {"coins", "seal_confidential"}
            /\ api.theirs[1].coins = call.args.invoice.amount
            /\ api.theirs[1].seal_confidential = call.args.invoice.outpoint.hash
            /\ DOMAIN api = {"psbt", "contract_id", "inputs", "ours", "theirs"}

\* a transfer request with an allocation of the caller's own is about to be sent
C19_Witness ==
    /\ InTransfer
    /\ call.pc = "send"
    /\ call.args.allocate # <<>>
    /\ call.cmd.api.ours = call.args.allocate
    /\ Len(call.cmd.api.theirs) = 1

----------------------------------------------------------------------------
(* Claims about the allocations, checked under SpecCoins *)

\* C11: seal_definition on an allocation with txid = Some(t) and vout = v
\* returns a TxOutpoint seal with txid t and vout v; on one with txid = None
\* and vout = v it returns a WitnessVout seal with vout v and no transaction
\* id; the amount has no influence on the seal, and the allocation is not
\* modified.
C11_SealShape ==
    /\ \A i \in DOMAIN seals :
          /\ seals[i].self.txid.some
                => /\ seals[i].seal.variant = "TxOutpoint"
                   /\ seals[i].seal.txid = seals[i].self.txid.txid
                   /\ seals[i].seal.vout = seals[i].self.vout
                   /\ DOMAIN seals[i].seal = {"variant", "blinding", "txid", "vout"}
          /\ ~seals[i].self.txid.some
                => /\ seals[i].seal.variant = "WitnessVout"
                   /\ seals[i].seal.vout = seals[i].self.vout
                   /\ DOMAIN seals[i].seal = {"variant", "blinding", "vout"}
          /\ seals[i].after = seals[i].self
    /\ \A i, j \in DOMAIN seals :
          (/\ seals[i].self.txid = seals[j].self.txid
           /\ seals[i].self.vout = seals[j].self.vout
           /\ seals[i].entropy = seals[j].entropy)
          => seals[i].seal = seals[j].seal

\* a seal of each shape was made, from allocations of different amounts
C11_Witness ==
    /\ Len(seals) = 2
    /\ seals[1].seal.variant = "TxOutpoint"
    /\ seals[1].seal.vout = 2
    /\ seals[2].seal.variant = "WitnessVout"
    /\ seals[2].seal.vout = 0
    /\ seals[1].self.coins # seals[2].self.coins

\* C12, as stated: in any sequence of seal_definition calls no two returned
\* seals carry the same blinding factor.
C12_BlindingNeverReused ==
    \A i, j \in DOMAIN seals :
        i # j => seals[i].seal.blinding # seals[j].seal.blinding

\* C12, amended: the blinding factor of every seal is the value the random
\* generator returned in that call, whatever the allocation and the earlier
\* calls; two seals carry the same blinding factor exactly when the generator
\* returned the same value in both calls.
C12_BlindingIsTheDraw ==
    /\ \A i \in DOMAIN seals :
          /\ seals[i].seal.blinding = seals[i].entropy
          /\ seals[i].seal.blinding \in Entropy
    /\ \A i, j \in DOMAIN seals :
          (seals[i].seal.blinding = seals[j].seal.blinding)
             <=> (seals[i].entropy = seals[j].entropy)

\* two seals of the same allocation with different blinding factors
C12_Witness ==
    /\ Len(seals) = 2
    /\ seals[1].self = seals[2].self
    /\ seals[1].seal.blinding # seals[2].seal.blinding
    /\ seals[1].seal.blinding # seals[1].self.vout

\* C13: parsing the text that to_string (Display) makes of an Outcoins or an
\* Outcoincealed value succeeds and yields a value equal to the one shown.
C13_TextRoundTrip ==
    /\ (text_call.op = "Outcoins::from_str" /\ text_call.shown # {})
          => /\ text_call.res.ok
             /\ \A self \in text_call.shown : text_call.res.value = self
    /\ (text_call.op = "Outcoincealed::from_str" /\ text_call.shown # {})
          => /\ text_call.res.ok
             /\ \A self \in text_call.shown : text_call.res.value = self

\* the texts of the form <amount>@<txid in hex>:<decimal vout>
IsPlainForm(s) ==
    \E amount \in 1..Len(s), vout \in 1..Len(s) :
        /\ Len(s) = amount + 1 + HexLen + 1 + vout
        /\ \A i \in 1..amount : s[i] \in CoinChars
        /\ s[amount + 1] = "@"
        /\ \A i \in (amount + 2)..(amount + 1 + HexLen) :
              s[i] \in HexChars \cup {"A", "B", "C", "D", "E", "F"}
        /\ s[amount + HexLen + 2] = ":"
        /\ \A i \in (amount + HexLen + 3)..Len(s) : s[i] \in DigitChars

\* C20: every text Outcoins::from_str accepts yields an allocation with a
\* transaction id (txid = Some), so parsing never makes an allocation with
\* txid = None; every text that is not, as a whole, of the form
\* <amount>@<txid in hex>:<decimal vout> is rejected with ParseError.
C20_ParsedTxidIsSome ==
    text_call.op = "Outcoins::from_str"
       => /\ text_call.res.ok => text_call.res.value.txid.some
          /\ text_call.res.ok => IsPlainForm(text_call.s)
          /\ ~IsPlainForm(text_call.s) => text_call.res = ParseErr
          /\ ~text_call.res.ok => text_call.res = ParseErr

\* a text with an upper-case transaction id was accepted
C20_Witness ==
    /\ text_call.op = "Outcoins::from_str"
    /\ text_call.res.ok
    /\ text_call.res.value.txid.some
    /\ text_call.res.value.vout = 2
    /\ \E i \in 1..Len(text_call.s) : text_call.s[i] = "F"

====
